---- MODULE Spec2Model ----
(***************************************************************************)
(* Proof Generation Engine of flixizendao-proof.                           *)
(*                                                                         *)
(*   my_proof/utils/bloom_filter.py    BloomFilter, detect_new_rows        *)
(*   my_proof/schemas/netflix_columns.py   reference column sets           *)
(*   my_proof/proof.py                 Proof.__init__, Proof.generate      *)
(*                                                                         *)
(* Three specifications share the definitions:                             *)
(*   SpecBloom   one BloomFilter instance under add / contains calls       *)
(*   SpecDetect  one BloomFilter instance under detect_new_rows calls      *)
(*   Spec        one Proof object and its single generate() run            *)
(***************************************************************************)
EXTENDS Integers, Sequences, FiniteSets, TLC

VARIABLES
    \* ---- BloomFilter instance (bloom_filter.py) ----
    bloom_filter,   \* the object's fields: size, num_hashes, bit_array, count
    hash_value,     \* int(sha256(f"{item}:{i}").hexdigest(), 16), per item and i
    add_calls,      \* history: number of add(item) calls so far, per item (capped)
    last_call,      \* history: the most recent call on the filter and what it returned
    detect_calls,   \* history: number of detect_new_rows calls on the filter
    duplicate_stats, \* the dict the last detect_new_rows call returned, with its arguments
    \* ---- Proof object and its generate() run (proof.py) ----
    pc,                   \* position of the run in generate
    errors,               \* self.errors
    blockchain_available, \* self.blockchain_available
    OWNER_ADDRESS,        \* settings.OWNER_ADDRESS is set (truthy)
    proof_response,       \* self.proof_response
    df,                   \* local: the frame pd.read_csv returned
    is_view,              \* local
    is_bill,              \* local
    run_stats,            \* local duplicate_stats
    hash_mismatch,        \* local
    file_stats            \* local

bloom_vars == <<bloom_filter, hash_value, add_calls, last_call, detect_calls, duplicate_stats>>

proof_vars == <<pc, errors, blockchain_available, OWNER_ADDRESS, proof_response,
                df, is_view, is_bill, run_stats, hash_mismatch, file_stats>>

vars == <<bloom_filter, hash_value, add_calls, last_call, detect_calls, duplicate_stats,
          pc, errors, blockchain_available, OWNER_ADDRESS, proof_response,
          df, is_view, is_bill, run_stats, hash_mismatch, file_stats>>

(***************************************************************************)
(* Bounds of the model.                                                    *)
(***************************************************************************)
\* longest list of row hashes handed to detect_new_rows
MaxHashes == 2
\* detect_new_rows calls made on one filter instance
MaxDetectCalls == 2
\* add(item) calls counted per item by the history variable add_calls
MaxCounted == 2

\* the strings handed to the filter (row hashes)
Items == {"h_a", "h_b", "h_c"}

(***************************************************************************)
(* BloomFilter.__init__: size and num_hashes are computed from              *)
(* (expected_elements, false_positive_rate) by _calculate_size and          *)
(* _calculate_num_hashes.  The table lists constructor arguments with the  *)
(* values int(-n*ln(p)/ln(2)^2) and int(m/n*ln(2)) they yield.              *)
(***************************************************************************)
ConstructorCases ==
    { [expected_elements |-> 1, false_positive_rate |-> "0.3", size |-> 2, num_hashes |-> 1],
      [expected_elements |-> 1, false_positive_rate |-> "0.2", size |-> 3, num_hashes |-> 2] }

BloomFilterInit(c) ==
    [ expected_elements   |-> c.expected_elements,
      false_positive_rate |-> c.false_positive_rate,
      size                |-> c.size,
      num_hashes          |-> c.num_hashes,
      bit_array           |-> [pos \in 0 .. (c.size - 1) |-> 0],
      count               |-> 0 ]

(***************************************************************************)
(* sha256 is a fixed function the model does not compute: a digest table   *)
(* h gives, for every item and hash index i, the integer hash_value.  Only *)
(* hash_value % size is ever used, so the digests range over 0..size-1.    *)
(***************************************************************************)
DigestTables(items, c) ==
    [items -> [0 .. (c.num_hashes - 1) -> 0 .. (c.size - 1)]]

\* BloomFilter._get_hash_positions: positions[i] = hash_value % self.size
GetHashPositions(f, h, item) ==
    [i \in 0 .. (f.num_hashes - 1) |-> h[item][i] % f.size]

\* all(self.bit_array[pos] == 1 for pos in positions)
AllPositionsSet(f, positions) ==
    \A i \in DOMAIN positions : f.bit_array[positions[i]] = 1

\* for pos in positions: self.bit_array[pos] = 1
SetPositions(f, positions) ==
    [pos \in DOMAIN f.bit_array |->
        IF \E i \in DOMAIN positions : positions[i] = pos THEN 1 ELSE f.bit_array[pos]]

\* mutant of BloomAdd: only the first hash position is set
BloomAddFirstPositionOnly(f, h, item) ==
    LET positions    == GetHashPositions(f, h, item)
        is_duplicate == AllPositionsSet(f, positions)
        first        == [i \in (DOMAIN positions) \cap {0} |-> positions[i]]
    IN  [ filter |-> [f EXCEPT !.bit_array = SetPositions(f, first),
                               !.count = IF is_duplicate THEN @ ELSE @ + 1],
          ret    |-> is_duplicate ]

\* mutant of BloomAdd: the duplicate test is made after the bits are set
BloomAddTestAfterSet(f, h, item) ==
    LET positions == GetHashPositions(f, h, item)
        after     == [f EXCEPT !.bit_array = SetPositions(f, positions)]
        is_duplicate == AllPositionsSet(after, positions)
    IN  [ filter |-> [after EXCEPT !.count = IF is_duplicate THEN @ ELSE @ + 1],
          ret    |-> is_duplicate ]

\* BloomFilter.add: the filter after the call and the value returned
BloomAdd(f, h, item) ==
    LET positions    == GetHashPositions(f, h, item)
        is_duplicate == AllPositionsSet(f, positions)
    IN  [ filter |-> [f EXCEPT !.bit_array = SetPositions(f, positions),
                               !.count = IF is_duplicate THEN @ ELSE @ + 1],
          ret    |-> is_duplicate ]

\* BloomFilter.contains
BloomContains(f, h, item) ==
    AllPositionsSet(f, GetHashPositions(f, h, item))

(***************************************************************************)
(* detect_new_rows(hashes, bloom_filter): the loop over the list, then the *)
(* returned dict.  uniqueness_ratio is the exact quotient num/den.         *)
(***************************************************************************)
RECURSIVE DetectLoop(_, _, _, _, _)
DetectLoop(hashes, f, h, new_count, duplicate_count) ==
    IF hashes = << >>
    THEN [filter |-> f, new_count |-> new_count, duplicate_count |-> duplicate_count]
    ELSE LET r == BloomAdd(f, h, Head(hashes))
         IN  IF r.ret
             THEN DetectLoop(Tail(hashes), r.filter, h, new_count, duplicate_count + 1)
             ELSE DetectLoop(Tail(hashes), r.filter, h, new_count + 1, duplicate_count)

\* mutant of DetectNewRows: the ratio is taken over the duplicates counted
DetectNewRowsRatioOverDuplicates(hashes, f, h) ==
    LET loop == DetectLoop(hashes, f, h, 0, 0)
    IN  [ filter |-> loop.filter,
          new_rows |-> loop.new_count,
          duplicate_rows |-> loop.duplicate_count,
          total_rows |-> Len(hashes),
          uniqueness_ratio |->
              IF loop.duplicate_count > 0
              THEN [num |-> loop.new_count, den |-> loop.duplicate_count]
              ELSE [num |-> 0, den |-> 1] ]

DetectNewRows(hashes, f, h) ==
    LET loop == DetectLoop(hashes, f, h, 0, 0)
    IN  [ filter |-> loop.filter,
          new_rows |-> loop.new_count,
          duplicate_rows |-> loop.duplicate_count,
          total_rows |-> Len(hashes),
          uniqueness_ratio |->
              IF Len(hashes) > 0
              THEN [num |-> loop.new_count, den |-> Len(hashes)]
              ELSE [num |-> 0, den |-> 1] ]

(***************************************************************************)
(* History kept beside the filter: what was called, and what it returned.  *)
(***************************************************************************)
NoCall == [op |-> "none", item |-> "", ret |-> FALSE, prior |-> 0, before |-> {}]

Counted(n) == IF n < MaxCounted THEN n + 1 ELSE MaxCounted

\* the items add has been called with
Added == {x \in Items : add_calls[x] > 0}

NoStats ==
    [ called |-> FALSE, started_empty |-> FALSE, all_distinct |-> FALSE,
      fresh_positions |-> FALSE,
      new_rows |-> 0, duplicate_rows |-> 0, total_rows |-> 0,
      uniqueness_ratio |-> [num |-> 0, den |-> 1] ]

\* the bit positions _get_hash_positions yields for item
PositionSet(f, h, item) ==
    {GetHashPositions(f, h, item)[i] : i \in 0 .. (f.num_hashes - 1)}

\* no bit of the filter is set
IsEmpty(f) == \A pos \in DOMAIN f.bit_array : f.bit_array[pos] = 0

\* no string occurs twice in the list
AllDistinct(hashes) ==
    \A i, j \in 1 .. Len(hashes) : i # j => hashes[i] # hashes[j]

\* every string of the list has a bit position that is unset in f and that no
\* earlier string of the list sets
FreshPositions(hashes, f, h) ==
    \A i \in 1 .. Len(hashes) :
        \E pos \in PositionSet(f, h, hashes[i]) :
            /\ f.bit_array[pos] = 0
            /\ \A j \in 1 .. (i - 1) : pos \notin PositionSet(f, h, hashes[j])

SeqsUpTo(S, n) == UNION {[1 .. k -> S] : k \in 0 .. n}

(***************************************************************************)
(* netflix_columns.py: the reference column sets and the threshold         *)
(* REQUIRED_THRESHOLD = 0.5, kept as the fraction 1/2.                      *)
(***************************************************************************)
VIEWING_REQUIRED == {"duration", "start time", "profile name", "title"}

BILLING_REQUIRED == {"transaction date", "gross sale amt", "currency"}

REQUIRED_THRESHOLD_NUM == 1
REQUIRED_THRESHOLD_DEN == 2

\* proof.py: PROOF_THRESHOLD = 0.5, in the unit of score (1/10000)
PROOF_THRESHOLD == 5000

(***************************************************************************)
(* The inputs of a run.                                                    *)
(***************************************************************************)
\* column names as they stand in the CSV header
RawColumns ==
    { "Duration", "Start Time", "Profile Name", " Title ", "TITLE",
      "Transaction Date", "Gross Sale Amt", "Currency", "Country" }

\* c.lower()
Lower(c) ==
    CASE c = "Duration"         -> "duration"
      [] c = "Start Time"       -> "start time"
      [] c = "Profile Name"     -> "profile name"
      [] c = " Title "          -> " title "
      [] c = "TITLE"            -> "title"
      [] c = "Transaction Date" -> "transaction date"
      [] c = "Gross Sale Amt"   -> "gross sale amt"
      [] c = "Currency"         -> "currency"
      [] c = "Country"          -> "country"

\* s.strip(), on the lower-cased names
Strip(s) == IF s = " title " THEN "title" ELSE s

\* s.startswith("start time"), on the lower-cased names
StartsWithStartTime(s) == s = "start time"

\* the rows a CSV holds: every cell missing, one cell missing, no cell missing
RowValues == {"blank", "partial", "full"}

\* number of NaN cells of a row of ncols columns
NullCells(row, ncols) ==
    CASE row = "blank" -> ncols [] row = "partial" -> 1 [] row = "full" -> 0

\* whether the row's "Start Time" cell can hold a date
MayHoldDate(row) == row # "blank"

\* hash_csv_row(",".join(str(val) for val in row.values)): sha256 keeps distinct
\* row strings apart
hash_csv_row(row) ==
    CASE row = "blank" -> "h_a" [] row = "partial" -> "h_b" [] row = "full" -> "h_c"

\* longest CSV (rows) a run reads
MaxRows == 2
\* largest count get_contributor_file_count reports
MaxPriorFiles == 1

DataFrames ==
    [columns : SUBSET RawColumns, rows : SeqsUpTo(RowValues, MaxRows)]

NoDf == [columns |-> {}, rows |-> << >>, read |-> FALSE]

(***************************************************************************)
(* proof.py line 142 builds BloomFilter(expected_elements=1000000,          *)
(* false_positive_rate=0.01): 9585058 bits, 6 hashes.  The run's filter is  *)
(* scaled down to BloomFilter(2, 0.45): 3 bits, 1 hash, which is enough for *)
(* every new / duplicate verdict on up to three distinct rows to occur.     *)
(***************************************************************************)
RunFilterCase ==
    [expected_elements |-> 2, false_positive_rate |-> "0.45", size |-> 3, num_hashes |-> 1]

(***************************************************************************)
(* ProofResponse (my_proof/models/proof_response.py, outside src/): a      *)
(* field the run has not assigned holds the constructor's default, written *)
(* "unset" (valid), -1 (numbers) and NoAttributes here.                    *)
(***************************************************************************)
NoAttributes == [default |-> TRUE]

\* the local duplicate_stats before line 145 assigns it
NoRunStats ==
    [ filter |-> "none", new_rows |-> 0, duplicate_rows |-> 0, total_rows |-> 0,
      uniqueness_ratio |-> [num |-> 0, den |-> 1] ]

ProofResponseInit ==
    [ valid |-> "unset", quality |-> -1, uniqueness |-> -1, ownership |-> -1,
      score |-> -1, attributes |-> NoAttributes, metadata |-> "unset" ]

(***************************************************************************)
(* Pure parts of Proof.generate.                                           *)
(***************************************************************************)
\* header = {c.strip().lower() for c in df.columns}
Header(columns) == {Strip(Lower(c)) : c \in columns}

\* mutant of Qualifies: more than the threshold share is asked for
QualifiesStrictly(header, required) ==
    Cardinality(header \cap required) * REQUIRED_THRESHOLD_DEN
        > Cardinality(required) * REQUIRED_THRESHOLD_NUM

\* len(header & REQUIRED) >= len(REQUIRED) * REQUIRED_THRESHOLD
Qualifies(header, required) ==
    Cardinality(header \cap required) * REQUIRED_THRESHOLD_DEN
        >= Cardinality(required) * REQUIRED_THRESHOLD_NUM

\* df.empty or df.shape[1] < 3 or len(df) < 1
TooSmall(d) ==
    \/ Cardinality(d.columns) = 0 \/ Len(d.rows) = 0
    \/ Cardinality(d.columns) < 3
    \/ Len(d.rows) < 1

Min(a, b) == IF a <= b THEN a ELSE b

\* round(a / b) to the nearest integer, ties to the even one (Python's round)
RoundDiv(a, b) ==
    LET q == a \div b
        r == a % b
    IN  IF 2 * r < b THEN q
        ELSE IF 2 * r > b THEN q + 1
        ELSE IF q % 2 = 0 THEN q ELSE q + 1

RECURSIVE SumNulls(_, _)
SumNulls(rows, ncols) ==
    IF rows = << >> THEN 0 ELSE NullCells(Head(rows), ncols) + SumNulls(Tail(rows), ncols)

\* mutant of Quality: the sum of the components is rounded without the cap
QualityUncapped(d, new_rows, recency) ==
    LET r  == Len(d.rows)
        c  == Cardinality(d.columns)
        n  == SumNulls(d.rows, c)
        Q  == 6000 * (r * c - n)
              + Min(new_rows, 5000) * r * c
              + (IF recency THEN 1000 * r * c ELSE 0)
              + 3000 * new_rows * c
    IN  RoundDiv(Q, 10 * r * c)

(***************************************************************************)
(* quality, in thousandths.  With r rows, c columns, n NaN cells, the sum   *)
(*   non_null*0.6 + min(new/10000, 0.5) + recency_bonus + ratio*0.3         *)
(* is  Q / (10000*r*c)  for the integer Q below.                           *)
(***************************************************************************)
Quality(d, new_rows, recency) ==
    LET r  == Len(d.rows)
        c  == Cardinality(d.columns)
        n  == SumNulls(d.rows, c)
        Q  == 6000 * (r * c - n)
              + Min(new_rows, 5000) * r * c
              + (IF recency THEN 1000 * r * c ELSE 0)
              + 3000 * new_rows * c
    IN  RoundDiv(Min(Q, 10000 * r * c), 10 * r * c)

\* max((s["quality"] for s in file_stats.values()), default=0.0)
MaxQuality(fs) ==
    IF DOMAIN fs = {} THEN 0
    ELSE CHOOSE q \in {fs[k].quality : k \in DOMAIN fs} :
             \A k \in DOMAIN fs : fs[k].quality <= q

\* mutant of FinalDecision: the threshold gate records the error only
FinalDecisionGateKeepsValid(errs, fs, owner, resp) ==
    LET errs1   == IF DOMAIN fs = {} THEN Append(errs, "NO_VALID_CSV_FILES") ELSE errs
        quality == MaxQuality(fs)
        own     == IF owner THEN 1000 ELSE 0
        score   == quality * 6 + 1000 * 3 + own * 1
        below   == score < PROOF_THRESHOLD
        errs2   == IF below THEN Append(errs1, "SCORE_BELOW_THRESHOLD") ELSE errs1
    IN  [ errors |-> errs2,
          response |-> [ resp EXCEPT
              !.valid = IF Len(errs1) = 0 THEN "True" ELSE "False",
              !.quality = quality, !.uniqueness = 1000, !.ownership = own,
              !.score = score,
              !.attributes = [files |-> fs, errors |-> errs2],
              !.metadata = "netflix-csv" ] ]

(***************************************************************************)
(* proof.py lines 204-233: the NO_VALID_CSV_FILES check, the final         *)
(* decision, the threshold gate, attributes and metadata.  quality,        *)
(* uniqueness and ownership are in thousandths, score in 1/10000.          *)
(* attributes["errors"] is the list self.errors itself.                    *)
(***************************************************************************)
FinalDecision(errs, fs, owner, resp) ==
    LET errs1   == IF DOMAIN fs = {} THEN Append(errs, "NO_VALID_CSV_FILES") ELSE errs
        quality == MaxQuality(fs)
        own     == IF owner THEN 1000 ELSE 0
        score   == quality * 6 + 1000 * 3 + own * 1
        below   == score < PROOF_THRESHOLD
        errs2   == IF below THEN Append(errs1, "SCORE_BELOW_THRESHOLD") ELSE errs1
    IN  [ errors |-> errs2,
          response |-> [ resp EXCEPT
              !.valid = IF below THEN "False"
                        ELSE IF Len(errs1) = 0 THEN "True" ELSE "False",
              !.quality = quality, !.uniqueness = 1000, !.ownership = own,
              !.score = score,
              !.attributes = [files |-> fs, errors |-> errs2],
              !.metadata = "netflix-csv" ] ]

(***************************************************************************)
(* Proof.__init__ and the run of Proof.generate, one action per step.      *)
(***************************************************************************)
InitProof ==
    /\ pc = "start"
    /\ errors = << >>
    /\ blockchain_available \in BOOLEAN
    /\ OWNER_ADDRESS \in BOOLEAN
    /\ proof_response = ProofResponseInit
    /\ df = NoDf
    /\ is_view = FALSE
    /\ is_bill = FALSE
    /\ run_stats = NoRunStats
    /\ hash_mismatch = FALSE
    /\ file_stats = << >>

\* the variables of a filter no caller holds
BloomIdle ==
    /\ bloom_filter = BloomFilterInit(RunFilterCase)
    /\ hash_value = << >>
    /\ add_calls = [x \in Items |-> 0]
    /\ last_call = NoCall
    /\ detect_calls = 0
    /\ duplicate_stats = NoStats

\* the variables of a Proof object no caller runs
ProofIdle ==
    /\ pc = "idle"
    /\ errors = << >>
    /\ blockchain_available = FALSE
    /\ OWNER_ADDRESS = FALSE
    /\ proof_response = ProofResponseInit
    /\ df = NoDf
    /\ is_view = FALSE
    /\ is_bill = FALSE
    /\ run_stats = NoRunStats
    /\ hash_mismatch = FALSE
    /\ file_stats = << >>

locals == <<df, is_view, is_bill, run_stats, hash_mismatch, file_stats>>

\* lines 80-88: the Drive credentials from the environment
CheckCredentials(drive_file_id, drive_access_token, wallet_signature) ==
    /\ pc = "start"
    /\ IF ~drive_file_id \/ ~drive_access_token \/ ~wallet_signature
       THEN /\ errors' = Append(errors, "MISSING_DRIVE_CREDENTIALS")
            /\ proof_response' = [proof_response EXCEPT !.valid = "False"]
            /\ pc' = "returned"
       ELSE /\ pc' = "guard"
            /\ UNCHANGED <<errors, proof_response>>
    /\ UNCHANGED <<blockchain_available, OWNER_ADDRESS, locals, bloom_vars>>

\* lines 90-93: the duplicate-contribution guard; the lookup is outside every try
GuardSkipped ==
    /\ pc = "guard"
    /\ ~(blockchain_available /\ OWNER_ADDRESS)
    /\ pc' = "download"
    /\ UNCHANGED <<errors, proof_response, blockchain_available, OWNER_ADDRESS,
                   locals, bloom_vars>>

GuardLookup(file_count) ==
    /\ pc = "guard"
    /\ blockchain_available /\ OWNER_ADDRESS
    /\ errors' = IF file_count > 0 THEN Append(errors, "DUPLICATE_CONTRIBUTION") ELSE errors
    /\ pc' = "download"
    /\ UNCHANGED <<proof_response, blockchain_available, OWNER_ADDRESS, locals, bloom_vars>>

\* get_contributor_file_count() raises: nothing catches it in generate
GuardLookupRaises ==
    /\ pc = "guard"
    /\ blockchain_available /\ OWNER_ADDRESS
    /\ pc' = "raised"
    /\ UNCHANGED <<errors, proof_response, blockchain_available, OWNER_ADDRESS,
                   locals, bloom_vars>>

\* line 200-202: except Exception -> DRIVE_PROCESSING_ERROR, return
ProcessingError ==
    /\ errors' = Append(errors, "DRIVE_PROCESSING_ERROR")
    /\ pc' = "returned"
    /\ UNCHANGED <<proof_response, blockchain_available, OWNER_ADDRESS, locals, bloom_vars>>

\* lines 97-99: _download_from_drive
Download(ok) ==
    /\ pc = "download"
    /\ IF ok
       THEN /\ pc' = "decrypt"
            /\ UNCHANGED <<errors, proof_response, blockchain_available, OWNER_ADDRESS,
                           locals, bloom_vars>>
       ELSE ProcessingError

\* lines 101-108: _decrypt_file, then the temporary file
Decrypt(ok) ==
    /\ pc = "decrypt"
    /\ IF ok
       THEN /\ pc' = "read"
            /\ UNCHANGED <<errors, proof_response, blockchain_available, OWNER_ADDRESS,
                           locals, bloom_vars>>
       ELSE ProcessingError

\* line 112: pd.read_csv raises
ReadCsvFails ==
    /\ pc = "read"
    /\ ProcessingError

\* lines 112-116: pd.read_csv, then the size check
ReadCsvFrame(d) ==
    /\ df' = [columns |-> d.columns, rows |-> d.rows, read |-> TRUE]
    /\ IF TooSmall(d)
       THEN /\ errors' = Append(errors, "CSV_TOO_SMALL")
            /\ pc' = "returned"
       ELSE /\ pc' = "classify"
            /\ UNCHANGED errors
    /\ UNCHANGED <<proof_response, blockchain_available, OWNER_ADDRESS,
                   is_view, is_bill, run_stats, hash_mismatch, file_stats, bloom_vars>>

ReadCsv ==
    /\ pc = "read"
    /\ \E d \in DataFrames : ReadCsvFrame(d)

\* lines 118-124: classification of the header
Classify ==
    /\ pc = "classify"
    /\ LET header == Header(df.columns)
           view   == Qualifies(header, VIEWING_REQUIRED)
           bill   == Qualifies(header, BILLING_REQUIRED)
       IN  /\ is_view' = view
           /\ is_bill' = bill
           /\ IF ~(view \/ bill)
              THEN /\ errors' = Append(errors, "UNRECOGNISED_CSV_STRUCTURE")
                   /\ pc' = "returned"
              ELSE /\ pc' = "detect"
                   /\ UNCHANGED errors
    /\ UNCHANGED <<proof_response, blockchain_available, OWNER_ADDRESS,
                   df, run_stats, hash_mismatch, file_stats, bloom_vars>>

\* the row hashes of the frame (lines 136-139)
RECURSIVE ServerHashes(_)
ServerHashes(rows) ==
    IF rows = << >> THEN << >>
    ELSE <<hash_csv_row(Head(rows))>> \o ServerHashes(Tail(rows))

\* lines 126-150: the client's hashes (ROW_HASHES_JSON holds client_count of them,
\* none when it is no JSON list), the server hashes, a fresh filter,
\* detect_new_rows.  h is sha256 on the row hashes of this frame.
DetectDuplicates ==
    /\ pc = "detect"
    /\ \E client_count \in 0 .. MaxRows :
          hash_mismatch' = (client_count # Len(ServerHashes(df.rows)))
    /\ LET server_hashes == ServerHashes(df.rows)
           present == {server_hashes[i] : i \in 1 .. Len(server_hashes)}
       IN  \E h \in DigestTables(present, RunFilterCase) :
              LET d == DetectNewRows(server_hashes, BloomFilterInit(RunFilterCase), h)
              IN  run_stats' = [d EXCEPT !.filter = "discarded"]
    /\ pc' = "metrics"
    /\ UNCHANGED <<errors, proof_response, blockchain_available, OWNER_ADDRESS,
                   df, is_view, is_bill, file_stats, bloom_vars>>

\* lines 152-198: the metrics of the file and its file_stats entry.  recent_dates:
\* the "start time" column parses as dates and one is on or after 2020-01-01.
Metrics(recent_dates) ==
    /\ pc = "metrics"
    /\ recent_dates => \E i \in 1 .. Len(df.rows) : MayHoldDate(df.rows[i])
    /\ LET col == {c \in df.columns : StartsWithStartTime(Lower(c))}
           recency_bonus == is_view /\ col # {} /\ recent_dates
           quality == Quality(df, run_stats.new_rows, recency_bonus)
       IN  file_stats' =
              [ drive_file |->
                  [ rows |-> Len(df.rows),
                    new_rows |-> run_stats.new_rows,
                    duplicate_rows |-> run_stats.duplicate_rows,
                    uniqueness_ratio |->
                        RoundDiv(1000 * run_stats.uniqueness_ratio.num,
                                 run_stats.uniqueness_ratio.den),
                    file_type |-> IF is_view THEN "netflix-viewing-activity"
                                  ELSE "netflix-billing-history",
                    quality |-> quality,
                    hash_mismatch |-> hash_mismatch ] ]
    /\ pc' = "final"
    /\ UNCHANGED <<errors, proof_response, blockchain_available, OWNER_ADDRESS,
                   df, is_view, is_bill, run_stats, hash_mismatch, bloom_vars>>

\* lines 204-233
Finish ==
    /\ pc = "final"
    /\ LET fin == FinalDecision(errors, file_stats, OWNER_ADDRESS, proof_response)
       IN  /\ errors' = fin.errors
           /\ proof_response' = fin.response
    /\ pc' = "returned"
    /\ UNCHANGED <<blockchain_available, OWNER_ADDRESS, locals, bloom_vars>>

Init == InitProof /\ BloomIdle

Next ==
    \/ \E a, b, c \in BOOLEAN : CheckCredentials(a, b, c)
    \/ GuardSkipped
    \/ \E file_count \in 0 .. MaxPriorFiles : GuardLookup(file_count)
    \/ GuardLookupRaises
    \/ \E ok \in BOOLEAN : Download(ok)
    \/ \E ok \in BOOLEAN : Decrypt(ok)
    \/ ReadCsvFails
    \/ ReadCsv
    \/ Classify
    \/ DetectDuplicates
    \/ \E recent_dates \in BOOLEAN : Metrics(recent_dates)
    \/ Finish

Spec == Init /\ [][Next]_vars

(***************************************************************************)
(* The filter instance: construction, then calls.                          *)
(***************************************************************************)
InitBloom ==
    /\ \E c \in ConstructorCases :
          /\ bloom_filter = BloomFilterInit(c)
          /\ hash_value \in DigestTables(Items, c)
    /\ add_calls = [x \in Items |-> 0]
    /\ last_call = NoCall
    /\ detect_calls = 0
    /\ duplicate_stats = NoStats
    /\ ProofIdle

\* a caller's bloom_filter.add(item)
Add(item) ==
    LET r == BloomAdd(bloom_filter, hash_value, item)
    IN  /\ bloom_filter' = r.filter
        /\ last_call' = [op |-> "add", item |-> item, ret |-> r.ret,
                         prior |-> add_calls[item], before |-> Added]
        /\ add_calls' = [add_calls EXCEPT ![item] = Counted(@)]
        /\ UNCHANGED <<hash_value, detect_calls, duplicate_stats, proof_vars>>

\* a caller's bloom_filter.contains(item)
Contains(item) ==
    /\ last_call' = [op |-> "contains", item |-> item,
                     ret |-> BloomContains(bloom_filter, hash_value, item),
                     prior |-> add_calls[item], before |-> Added]
    /\ UNCHANGED <<bloom_filter, hash_value, add_calls, detect_calls, duplicate_stats, proof_vars>>

NextBloom ==
    \/ \E item \in Items : Add(item)
    \/ \E item \in Items : Contains(item)

SpecBloom == InitBloom /\ [][NextBloom]_vars

\* a caller's detect_new_rows(hashes, bloom_filter); add_calls and last_call keep
\* counting the caller's own add / contains calls only
Detect(hashes) ==
    LET d == DetectNewRows(hashes, bloom_filter, hash_value)
    IN  /\ detect_calls < MaxDetectCalls
        /\ bloom_filter' = d.filter
        /\ duplicate_stats' =
               [ called |-> TRUE,
                 started_empty |-> IsEmpty(bloom_filter),
                 all_distinct |-> AllDistinct(hashes),
                 fresh_positions |-> FreshPositions(hashes, bloom_filter, hash_value),
                 new_rows |-> d.new_rows, duplicate_rows |-> d.duplicate_rows,
                 total_rows |-> d.total_rows, uniqueness_ratio |-> d.uniqueness_ratio ]
        /\ detect_calls' = detect_calls + 1
        /\ UNCHANGED <<hash_value, add_calls, last_call, proof_vars>>

NextDetect == \E hashes \in SeqsUpTo(Items, MaxHashes) : Detect(hashes)

SpecDetect == InitBloom /\ [][NextDetect]_vars

(***************************************************************************)
(* The metrics and the final decision on longer files: a run that stands   *)
(* at line 152, after detect_new_rows returned.  The frame holds blank,    *)
(* partial and full rows in that order; rows of one kind other than blank  *)
(* may differ in their values, a blank row reads "nan,nan,..." always.     *)
(***************************************************************************)
\* longest CSV (rows) of a run that starts at the metrics
MaxFileRows == 6

\* headers of three columns that pass the classification
ScoredColumns ==
    { {"Duration", "Start Time", "Profile Name"},
      {"Duration", "Profile Name", " Title "},
      {"Transaction Date", "Gross Sale Amt", "Currency"} }

\* n copies of the row kind
Repeat(kind, n) == [i \in 1 .. n |-> kind]

\* the frames: blank rows, then partial rows, then full rows
ScoredFrames ==
    { [columns |-> cols,
       rows    |-> Repeat("blank", b) \o Repeat("partial", p) \o Repeat("full", f),
       read    |-> TRUE] :
        cols \in ScoredColumns,
        b \in 0 .. MaxFileRows, p \in 0 .. MaxFileRows, f \in 0 .. MaxFileRows }

\* the most rows of the frame that can differ from one another
MaxNewRows(rows) ==
    Cardinality({i \in 1 .. Len(rows) : rows[i] # "blank"})
    + (IF \E i \in 1 .. Len(rows) : rows[i] = "blank" THEN 1 ELSE 0)

\* the state of a run when line 152 is reached: the frame was read and classified,
\* detect_new_rows counted the first row as new and every row as new or duplicate
InitMetrics ==
    /\ pc = "metrics"
    /\ blockchain_available \in BOOLEAN
    /\ OWNER_ADDRESS \in BOOLEAN
    /\ errors \in IF blockchain_available /\ OWNER_ADDRESS
                  THEN {<< >>, <<"DUPLICATE_CONTRIBUTION">>}
                  ELSE {<< >>}
    /\ proof_response = ProofResponseInit
    /\ df \in {d \in ScoredFrames : Len(d.rows) \in 1 .. MaxFileRows}
    /\ is_view = Qualifies(Header(df.columns), VIEWING_REQUIRED)
    /\ is_bill = Qualifies(Header(df.columns), BILLING_REQUIRED)
    /\ \E new_count \in 1 .. MaxNewRows(df.rows) :
          run_stats = [ filter |-> "discarded",
                        new_rows |-> new_count,
                        duplicate_rows |-> Len(df.rows) - new_count,
                        total_rows |-> Len(df.rows),
                        uniqueness_ratio |-> [num |-> new_count, den |-> Len(df.rows)] ]
    /\ hash_mismatch \in BOOLEAN
    /\ file_stats = << >>
    /\ BloomIdle

NextMetrics ==
    \/ \E recent_dates \in BOOLEAN : Metrics(recent_dates)
    \/ Finish

SpecQuality == InitMetrics /\ [][NextMetrics]_vars

(***************************************************************************)
(* Properties.                                                             *)
(***************************************************************************)
Has(errs, code) == \E i \in 1 .. Len(errs) : errs[i] = code

Returned == pc = "returned"

\* the run reached the final decision (lines 208-217 assigned score)
Scored == proof_response.score # -1

\* C1: threshold gate.  In every returned result whose score was computed, the score
\* is quality*0.6 + uniqueness*0.3 + ownership*0.1; when it is below 0.5 the result
\* has valid = false and SCORE_BELOW_THRESHOLD is in the error list; when it is at
\* least 0.5 and the error list is empty, valid = true.
C1_ThresholdGate ==
    (Returned /\ Scored) =>
        /\ proof_response.score =
               proof_response.quality * 6 + proof_response.uniqueness * 3
               + proof_response.ownership * 1
        /\ proof_response.score < PROOF_THRESHOLD =>
               /\ proof_response.valid = "False"
               /\ Has(errors, "SCORE_BELOW_THRESHOLD")
        /\ (proof_response.score >= PROOF_THRESHOLD /\ errors = << >>) =>
               proof_response.valid = "True"

\* C1 witness: a scored file, no other error, and the gate alone rejects the run
C1_Witness ==
    /\ Returned /\ Scored
    /\ DOMAIN file_stats # {}
    /\ proof_response.score < PROOF_THRESHOLD
    /\ errors = <<"SCORE_BELOW_THRESHOLD">>
    /\ proof_response.valid = "False"

\* C2 (as claimed): on every return path, a non-empty error list comes with valid
\* set to false by the run.
C2_ErrorsForceInvalid ==
    (Returned /\ errors # << >>) => proof_response.valid = "False"

\* C3 (as claimed): every returned result carries the run's full error list in
\* attributes.errors.
C3_ErrorsInResult ==
    Returned =>
        /\ "errors" \in DOMAIN proof_response.attributes
        /\ proof_response.attributes.errors = errors

\* C4 (as claimed): generate never raises to its caller; a failing collaborator
\* ends in a returned result.
C4_NeverRaises == pc # "raised"

\* C5 (as claimed): a run that rejected its file with CSV_TOO_SMALL or
\* UNRECOGNISED_CSV_STRUCTURE still reaches the aggregation and the gate: the result
\* has NO_VALID_CSV_FILES, quality 0.0, score 0.3 + ownership*0.1 < 0.5, valid false.
C5_PerFileErrorsContinue ==
    (Returned /\ (Has(errors, "CSV_TOO_SMALL") \/ Has(errors, "UNRECOGNISED_CSV_STRUCTURE"))) =>
        /\ Has(errors, "NO_VALID_CSV_FILES")
        /\ proof_response.quality = 0
        /\ proof_response.score = 3000 + (IF OWNER_ADDRESS THEN 1000 ELSE 0)
        /\ proof_response.score < PROOF_THRESHOLD
        /\ proof_response.valid = "False"

Covered(item, S) ==
    PositionSet(bloom_filter, hash_value, item)
        \subseteq UNION {PositionSet(bloom_filter, hash_value, x) : x \in S}

\* C7 (as claimed): the first add of a string returns false and the second add of it
\* returns true.
C7_FalseThenTrue ==
    last_call.op = "add" =>
        /\ last_call.prior = 0 => last_call.ret = FALSE
        /\ last_call.prior = 1 => last_call.ret = TRUE

\* C7 (amended): the second add of a string returns true; the first add of it
\* returns false exactly when one of its bit positions is set by none of the
\* strings added before it.
C7_FalseUnlessCovered ==
    last_call.op = "add" =>
        /\ last_call.prior = 1 => last_call.ret = TRUE
        /\ last_call.prior = 0 =>
               (last_call.ret = FALSE <=> ~Covered(last_call.item, last_call.before))

\* C7 witness: the second add of the only string the filter holds; the first add
\* was counted as new
C7_Witness ==
    /\ last_call.op = "add" /\ last_call.prior = 1 /\ last_call.ret = TRUE
    /\ last_call.before = {last_call.item}
    /\ bloom_filter.count = 1

\* an add or contains of an item that add was called with before returned true
NoFalseNegative ==
    (last_call.op \in {"add", "contains"} /\ last_call.prior >= 1) => last_call.ret = TRUE

\* a step keeps size and num_hashes, resets no bit, and a contains step changes no
\* field of the filter
FilterOnlyGrows ==
    /\ bloom_filter'.size = bloom_filter.size
    /\ bloom_filter'.num_hashes = bloom_filter.num_hashes
    /\ DOMAIN bloom_filter'.bit_array = DOMAIN bloom_filter.bit_array
    /\ \A pos \in DOMAIN bloom_filter.bit_array :
           bloom_filter.bit_array[pos] = 1 => bloom_filter'.bit_array[pos] = 1
    /\ (last_call' # last_call /\ last_call'.op = "contains") => bloom_filter' = bloom_filter

\* C8: over any sequence of add and contains calls, size and num_hashes never
\* change, no bit goes from 1 to 0, contains changes nothing, and once add(x) was
\* called every later contains(x) and add(x) returns true.
C8_NoFalseNegatives == [][FilterOnlyGrows]_vars /\ []NoFalseNegative

\* C8 witness: contains(x) returns true after add(x) and adds of two other items
C8_Witness ==
    /\ last_call.op = "contains" /\ last_call.prior >= 1 /\ last_call.ret = TRUE
    /\ Cardinality(last_call.before) = 3

\* what every detect_new_rows result satisfies
StatsConsistent ==
    /\ duplicate_stats.new_rows + duplicate_stats.duplicate_rows = duplicate_stats.total_rows
    /\ 0 <= duplicate_stats.uniqueness_ratio.num
    /\ duplicate_stats.uniqueness_ratio.num <= duplicate_stats.uniqueness_ratio.den
    /\ duplicate_stats.uniqueness_ratio.den > 0
    /\ duplicate_stats.total_rows = 0 => duplicate_stats.uniqueness_ratio.num = 0
    /\ duplicate_stats.total_rows > 0 =>
           /\ duplicate_stats.uniqueness_ratio.num = duplicate_stats.new_rows
           /\ duplicate_stats.uniqueness_ratio.den = duplicate_stats.total_rows

RatioIsOne ==
    duplicate_stats.uniqueness_ratio.num = duplicate_stats.uniqueness_ratio.den

\* C9 (as claimed): new_rows + duplicate_rows = total_rows, 0 <= uniqueness_ratio <= 1
\* (0.0 for an empty list), and the ratio is 1.0 when the hashes of the list are
\* distinct and the filter starts empty.
C9_RatioOneWhenDistinct ==
    duplicate_stats.called =>
        /\ StatsConsistent
        /\ (duplicate_stats.total_rows > 0 /\ duplicate_stats.all_distinct
              /\ duplicate_stats.started_empty) => RatioIsOne

\* C9 (amended): new_rows + duplicate_rows = total_rows, 0 <= uniqueness_ratio <= 1
\* (0.0 for an empty list), and the ratio is 1.0 exactly when the list is not empty
\* and every hash of it has a bit position that is unset when the call starts and
\* that no earlier hash of the list sets.
C9_RatioOneWhenFresh ==
    duplicate_stats.called =>
        /\ StatsConsistent
        /\ RatioIsOne <=>
              (duplicate_stats.total_rows > 0 /\ duplicate_stats.fresh_positions)

\* C9 witness: a list of distinct hashes on an empty filter, all counted as new
C9_Witness ==
    /\ duplicate_stats.called /\ duplicate_stats.started_empty
    /\ duplicate_stats.all_distinct /\ duplicate_stats.total_rows >= 2
    /\ duplicate_stats.new_rows = duplicate_stats.total_rows
    /\ RatioIsOne

\* number of reference columns the header of the frame holds
Matches(required) == Cardinality(Header(df.columns) \cap required)

\* the frame passed the size check and was classified
Classified ==
    /\ df.read /\ ~TooSmall(df)
    /\ pc \in {"detect", "metrics", "final", "returned"}

\* C10: for every frame that reaches classification, is_view holds iff at least 2 of
\* the 4 viewing columns are in the header and is_bill iff at least 2 of the 3
\* billing columns are; a scored file is netflix-viewing-activity when viewing
\* qualifies (also when both do) and netflix-billing-history when only billing
\* does; when neither qualifies UNRECOGNISED_CSV_STRUCTURE is recorded, the run
\* returns and the file is not scored.
C10_Classification ==
    /\ Classified =>
           /\ is_view <=> Matches(VIEWING_REQUIRED) >= 2
           /\ is_bill <=> Matches(BILLING_REQUIRED) >= 2
           /\ Has(errors, "UNRECOGNISED_CSV_STRUCTURE") <=>
                  (Matches(VIEWING_REQUIRED) < 2 /\ Matches(BILLING_REQUIRED) < 2)
           /\ Has(errors, "UNRECOGNISED_CSV_STRUCTURE") =>
                  (Returned /\ DOMAIN file_stats = {} /\ ~Scored)
    /\ ~Classified => ~Has(errors, "UNRECOGNISED_CSV_STRUCTURE")
    /\ DOMAIN file_stats # {} =>
           /\ Classified
           /\ file_stats.drive_file.file_type =
                  IF Matches(VIEWING_REQUIRED) >= 2 THEN "netflix-viewing-activity"
                  ELSE "netflix-billing-history"
           /\ Matches(VIEWING_REQUIRED) < 2 => Matches(BILLING_REQUIRED) >= 2

\* C10 witness: both classes qualify with exactly 2 matches each and the file is
\* scored as viewing activity
C10_Witness ==
    /\ Returned /\ Scored
    /\ Matches(VIEWING_REQUIRED) = 2 /\ Matches(BILLING_REQUIRED) = 2
    /\ file_stats.drive_file.file_type = "netflix-viewing-activity"

\* the scored file's entry of file_stats
ScoredFile == file_stats.drive_file

\* 10000 * rows * columns times the sum
\*   non_null_ratio*0.6 + min(new_rows/10000, 0.50) + recency_bonus + uniqueness_ratio*0.3
\* of the scored file, with recency_bonus 0.10 or 0.0
ComponentSum(recency) ==
    LET r == Len(df.rows)
        c == Cardinality(df.columns)
    IN  6000 * (r * c - SumNulls(df.rows, c))
        + Min(ScoredFile.new_rows, 5000) * r * c
        + (IF recency THEN 1000 * r * c ELSE 0)
        + (3000 * run_stats.uniqueness_ratio.num * r * c) \div run_stats.uniqueness_ratio.den

\* the cap 1.0 in the unit of ComponentSum
SumCap == 10000 * Len(df.rows) * Cardinality(df.columns)

\* C11: quality bound.  For every scored file, quality is the sum of the four
\* components capped once at 1.0 (and rounded to three decimals), the recency bonus
\* being granted to viewing files with a "start time" column only; 0.0 <= quality
\* <= 1.0; and the composite score of the returned result is
\* quality*0.6 + 1.0*0.3 + ownership*0.1 and lies in [0, 1].
C11_QualityBound ==
    DOMAIN file_stats # {} =>
        /\ \E recency \in BOOLEAN :
              /\ recency =>
                     (is_view /\ \E c \in df.columns : StartsWithStartTime(Lower(c)))
              /\ ScoredFile.quality =
                     RoundDiv(Min(ComponentSum(recency), SumCap),
                              10 * Len(df.rows) * Cardinality(df.columns))
        /\ 0 <= ScoredFile.quality /\ ScoredFile.quality <= 1000
        /\ Returned =>
               /\ proof_response.quality = ScoredFile.quality
               /\ proof_response.score =
                      proof_response.quality * 6 + 1000 * 3
                      + (IF OWNER_ADDRESS THEN 1000 ELSE 0) * 1
               /\ 0 <= proof_response.score /\ proof_response.score <= 10000

\* C11 witness: a returned run whose file has no missing cell, only new rows and the
\* recency bonus, so that the sum of the components rounds to more than 1.0 and the
\* cap alone keeps quality at 1.0; with the owner set the score is 1.0
C11_Witness ==
    /\ Returned /\ Scored
    /\ ComponentSum(TRUE) >= SumCap + 6 * Len(df.rows) * Cardinality(df.columns)
    /\ ScoredFile.quality = 1000
    /\ proof_response.score = 10000

====
